---- MODULE Spec2Model ----
(***************************************************************************)
(* Model of runMeticulousTestsAction (src/src/action.ts): the GitHub       *)
(* Action that resolves its inputs, classifies the triggering event,       *)
(* ensures a baseline, resolves and probes the target URL, delegates the   *)
(* run to executeTestRun and reports through a ResultsReporter.            *)
(*                                                                         *)
(* One action of the model is one synchronous segment of the async         *)
(* function: the code between two awaits.  A collaborator is a             *)
(* nondeterministic choice between returning and throwing.  Time is in     *)
(* seconds; the runtime runs a timeout at its deadline or later, when the  *)
(* event loop gets to it.                                                  *)
(***************************************************************************)
EXTENDS Integers, Sequences, FiniteSets, TLC

\* ---------------------------------------------------------------- bounds
\* The debounce closure reads no input of the action, so its timing is explored
\* in full in one reference configuration (ReferenceRun): there the clock runs
\* from 0 to MaxTime seconds and the executor calls onTestFinished at most
\* MaxCallbacks times.  In every other configuration the clock runs to
\* FlowMaxTime and there are at most FlowMaxCallbacks callbacks, enough for a
\* pending timer to expire at any await of the function.
MaxTime == 16
MaxCallbacks == 4
FlowMaxTime == 6
FlowMaxCallbacks == 2

\* ------------------------------------------------------------- constants
\* debounce(..., 5_000, ...): the inactivity wait, in seconds.
wait == 5
\* maxWait: 15_000, in seconds.
maxWait == 15
\* leading: false, trailing: true
leading == FALSE
trailing == TRUE
\* maxing = 'maxWait' in options
maxingOff == FALSE

maxing == TRUE

\* null / undefined: Null for strings, NoSha for commit ids, Undefined for
\* numbers (times, timer ids, callback arguments, the exit code).
Null == "null"
NoSha == <<>>
Undefined == 0 - 1

\* Number of characters shortSha keeps.
ShortShaLen == 7

HeadSha == <<1, 2, 3, 4, 5, 6, 7, 8, 9>>
BaseSha == <<9, 8, 7, 6, 5, 4, 3, 2, 1>>

EventNames == {"push", "pull_request", "workflow_dispatch", "issue_comment"}
GithubTokens == {Null, "ghs_token"}
AppUrls == {Null, "http://localhost:3000"}
DeploymentUrl == "https://preview.example"

TokenRequired == "github-token is required"
GithubConnectError == "Error connecting to GitHub. Did you specify a valid 'github-token'?"

VARIABLES
    \* context and getInputs()
    eventName, githubToken, appUrl, useDeploymentUrl,
    \* position in runMeticulousTestsAction and the error in flight
    pc, error,
    \* wall clock (seconds)
    now,
    \* telemetry: initSentry / startTransaction / setStatus / finish / close
    sentryCalls, transaction, closeCalls,
    \* @actions/core setFailed(message) calls
    setFailedCalls,
    \* locals of runMeticulousTestsAction
    event, octokit, head, shaToCompareAgainst, urlToTestAgainst,
    \* logger.warn and logger.info messages
    warnings, logs,
    \* the ResultsReporter and the calls made on it
    resultsReporter,
    \* the lodash debounced function reportTestFinished
    reportTestFinished,
    \* collaborator call logs
    baselineCalls, aliasCalls, waitCalls, proxyCalls, probes, executeTestRunCalls,
    \* the running executeTestRun: callbacks made so far
    testRunCreated, callbacks,
    \* exit code of the process (Undefined while it runs)
    exitCode,
    \* history of the callback bursts (for the debounce properties)
    burst,
    \* resultsReporter.testFinished(testRun) calls started and not completed yet
    testFinishedInFlight

vars == <<eventName, githubToken, appUrl, useDeploymentUrl, pc, error, now,
          sentryCalls, transaction, closeCalls, setFailedCalls,
          event, octokit, head, shaToCompareAgainst, urlToTestAgainst, warnings, logs,
          resultsReporter, reportTestFinished,
          baselineCalls, aliasCalls, waitCalls, proxyCalls, probes,
          executeTestRunCalls, testRunCreated, callbacks, exitCode, burst,
          testFinishedInFlight>>

inputVars == <<eventName, githubToken, appUrl, useDeploymentUrl>>
telemetryVars == <<sentryCalls, transaction, closeCalls>>
localVars == <<event, octokit, head, shaToCompareAgainst, urlToTestAgainst>>
collabVars == <<baselineCalls, aliasCalls, waitCalls, proxyCalls, probes,
                executeTestRunCalls>>
execVars == <<testRunCreated, callbacks>>
debounceVars == <<reportTestFinished, burst, now>>
logVars == <<warnings, logs>>


\* --------------------------------------------------- lodash.debounce
\* reportTestFinished = debounce(func, 5_000, {leading: false, trailing: true,
\* maxWait: 15_000}).  The closure state of the debounced function is the
\* record [lastArgs, lastCallTime, lastInvokeTime, timerId]; undefined is Undefined
\* and timerId is the time at which the setTimeout it names expires.  The field
\* timers holds the expiry times of all the timeouts the function has set and
\* that have neither run nor been cleared, in increasing order: lodash.debounce
\* sets a new timeout without clearing the one timerId named when a call
\* invokes func while a timeout is pending, so more than one can be pending.
\* Every operator returns the new closure state d and, in invoked, the
\* argument func was applied to (Undefined when func was not called).

NewDebounce ==
    [lastArgs |-> Undefined, lastCallTime |-> Undefined, lastInvokeTime |-> 0,
     timerId |-> Undefined, timers |-> <<>>]

\* The sequence s without its i-th element.
RemoveAt(s, i) == SubSeq(s, 1, i - 1) \o SubSeq(s, i + 1, Len(s))

\* timerId = setTimeout(timerExpired, delay)
setTimeout(d, time, delay) ==
    LET deadline == time + delay
        k == Cardinality({i \in 1..Len(d.timers) : d.timers[i] <= deadline})
    IN  [d EXCEPT !.timerId = deadline,
                  !.timers = SubSeq(@, 1, k) \o <<deadline>> \o SubSeq(@, k + 1, Len(@))]

\* clearTimeout(timerId)
clearTimeout(d) ==
    IF \E i \in 1..Len(d.timers) : d.timers[i] = d.timerId
    THEN [d EXCEPT !.timers = RemoveAt(@, CHOOSE i \in 1..Len(@) : @[i] = d.timerId)]
    ELSE d

Outcome(d, invoked) == [d |-> d, invoked |-> invoked]

invokeFunc(d, time) ==
    Outcome([d EXCEPT !.lastArgs = Undefined, !.lastInvokeTime = time], d.lastArgs)

leadingEdge(d, time) ==
    LET d1 == setTimeout([d EXCEPT !.lastInvokeTime = time], time, wait)
    IN  IF leading THEN invokeFunc(d1, time) ELSE Outcome(d1, Undefined)

Min(a, b) == IF a <= b THEN a ELSE b

remainingWait(d, time) ==
    LET timeSinceLastCall == time - d.lastCallTime
        timeSinceLastInvoke == time - d.lastInvokeTime
        timeWaiting == wait - timeSinceLastCall
    IN  IF maxing THEN Min(timeWaiting, maxWait - timeSinceLastInvoke) ELSE timeWaiting

shouldInvokeNoMaxWait(d, time) ==
    \/ d.lastCallTime = Undefined
    \/ /\ d.lastCallTime # Undefined
       /\ \/ time - d.lastCallTime >= wait
          \/ time - d.lastCallTime < 0

shouldInvoke(d, time) ==
    \/ d.lastCallTime = Undefined
    \/ /\ d.lastCallTime # Undefined
       /\ \/ time - d.lastCallTime >= wait
          \/ time - d.lastCallTime < 0
          \/ (maxing /\ time - d.lastInvokeTime >= maxWait)

trailingEdge(d, time) ==
    LET d1 == [d EXCEPT !.timerId = Undefined]
    IN  IF trailing /\ d1.lastArgs # Undefined
        THEN invokeFunc(d1, time)
        ELSE Outcome([d1 EXCEPT !.lastArgs = Undefined], Undefined)

timerExpiredNoCheck(d, time) == trailingEdge(d, time)

timerExpired(d, time) ==
    IF shouldInvoke(d, time)
    THEN trailingEdge(d, time)
    ELSE Outcome(setTimeout(d, time, remainingWait(d, time)), Undefined)

cancelKeepsTimer(d) == d

cancel(d) ==
    LET d1 == IF d.timerId # Undefined THEN clearTimeout(d) ELSE d
    IN  [d1 EXCEPT !.lastArgs = Undefined, !.lastCallTime = Undefined,
                   !.lastInvokeTime = 0, !.timerId = Undefined]

debounced(d, time, args) ==
    LET isInvoking == shouldInvoke(d, time)
        d1 == [d EXCEPT !.lastArgs = args, !.lastCallTime = time]
    IN  IF isInvoking /\ d1.timerId = Undefined
        THEN leadingEdge(d1, time)
        ELSE IF isInvoking /\ maxing
        THEN invokeFunc(setTimeout(d1, time, wait), time)
        ELSE IF d1.timerId = Undefined
        THEN Outcome(setTimeout(d1, time, wait), Undefined)
        ELSE Outcome(d1, Undefined)

\* ------------------------------------------------------ pure helpers

\* getCodeChangeEvent(context.eventName, payload): the event type, or Null for
\* an event that is not push, pull_request or workflow_dispatch.
getCodeChangeEvent(name) ==
    IF name \in {"push", "pull_request", "workflow_dispatch"} THEN name ELSE Null

\* getOctokitOrFail(githubToken); getOctokitThrows is the outcome of getOctokit.
Threw(message) == [threw |-> TRUE, message |-> message, value |-> Null]
Returned(value) == [threw |-> FALSE, message |-> Null, value |-> value]

getOctokitOrFailNoNullCheck(token, getOctokitThrows) ==
    IF getOctokitThrows THEN Threw(GithubConnectError) ELSE Returned("octokit")

getOctokitOrFail(token, getOctokitThrows) ==
    IF token = Null
    THEN Threw(TokenRequired)
    ELSE IF getOctokitThrows
    THEN Threw(GithubConnectError)
    ELSE Returned("octokit")

\* shortSha(sha): the abbreviated commit id.
shortSha(sha) == SubSeq(sha, 1, ShortShaLen)

\* The logger.info message of lines 91-105: its fixed text and the short
\* commit ids interpolated into it, in order.
Message(text, shas) == [text |-> text, shas |-> shas]

ComparingPr == "Comparing visual snapshots for the commit head of this PR, $, against $"
ComparingCommit == "Comparing visual snapshots for commit $ against commit $}"
Generating == "Generating visual snapshots for commit $"

ModeMessageSwapped(sha, eventType, headSha) ==
    IF sha # NoSha /\ eventType # "pull_request"
    THEN Message(ComparingPr, <<shortSha(headSha), shortSha(sha)>>)
    ELSE IF sha # NoSha
    THEN Message(ComparingCommit, <<shortSha(headSha), shortSha(sha)>>)
    ELSE Message(Generating, <<shortSha(headSha)>>)

ModeMessage(sha, eventType, headSha) ==
    IF sha # NoSha /\ eventType = "pull_request"
    THEN Message(ComparingPr, <<shortSha(headSha), shortSha(sha)>>)
    ELSE IF sha # NoSha
    THEN Message(ComparingCommit, <<shortSha(headSha), shortSha(sha)>>)
    ELSE Message(Generating, <<shortSha(headSha)>>)

\* The logger.warn message of lines 70-74.
SkipMessage(name) ==
    Message("Running report-diffs-action is only supported for 'push',       'pull_request' and 'workflow_dispatch' events, but was triggered       on a '$' event. Skipping execution.",
            <<name>>)

\* A call on the ResultsReporter: the method and its argument (the test run
\* an onTestFinished callback carried; Undefined for the other methods).
Call(method, arg) == [method |-> method, arg |-> arg]

\* const message = error instanceof Error ? error.message : `${error}`;
\* setFailed(message);
catchSetFailed(calls, message) == Append(calls, message)

\* await resultsReporter.errorRunningTests();
catchReportsFinished(reporter) ==
    [reporter EXCEPT !.calls = Append(@, Call("testRunFinished", Undefined))]

catchReport(reporter) ==
    [reporter EXCEPT !.calls = Append(@, Call("errorRunningTests", Undefined))]

\* if (urlToTestAgainst != null) { spinUpProxyIfNeeded; throwIfCannotConnectToOrigin }
probeNever(url) == FALSE

probeNeeded(url) == url # Null

\* executeTestRun({... commitSha: head, baseCommitSha: shaToCompareAgainst,
\* baseTestRunId: null, appUrl: urlToTestAgainst, ...})
executeTestRunArgsConfiguredUrl(headSha, sha, url) ==
    [commitSha |-> headSha, baseCommitSha |-> sha, baseTestRunId |-> Null,
     appUrl |-> appUrl]

executeTestRunArgs(headSha, sha, url) ==
    [commitSha |-> headSha, baseCommitSha |-> sha, baseTestRunId |-> Null, appUrl |-> url]

\* The history of the onTestFinished bursts: a burst is a run of callbacks each
\* less than `wait` after the previous one.  start and last are the times of
\* its first and latest callback, count its callbacks, invoked the number of
\* resultsReporter.testFinished invocations since start, firstUnreported the
\* time of the oldest callback not followed yet by an invocation.
NoBurst ==
    [start |-> Undefined, last |-> Undefined, count |-> 0, invoked |-> 0,
     firstUnreported |-> Undefined]

BurstAfterCallback(b, time) ==
    IF b.last = Undefined \/ time - b.last >= wait
    THEN [start |-> time, last |-> time, count |-> 1, invoked |-> 0,
          firstUnreported |-> IF b.firstUnreported = Undefined THEN time
                              ELSE b.firstUnreported]
    ELSE [b EXCEPT !.last = time, !.count = @ + 1,
                   !.firstUnreported = IF @ = Undefined THEN time ELSE @]

BurstAfterInvoke(b, invoked) ==
    IF invoked = Undefined THEN b
    ELSE [b EXCEPT !.invoked = @ + 1, !.firstUnreported = Undefined]

\* resultsReporter.testFinished returns a promise nobody awaits: the call is
\* in progress until it completes.
InFlightAfterInvoke(n, invoked) == IF invoked = Undefined THEN n ELSE n + 1

ReporterAfterInvoke(reporter, invoked) ==
    IF invoked = Undefined THEN reporter
    ELSE [reporter EXCEPT !.calls = Append(@, Call("testFinished", invoked))]


\* The bounds of the run, by configuration.
ReferenceRun ==
    /\ eventName = "push"
    /\ appUrl # Null
    /\ ~useDeploymentUrl
    /\ shaToCompareAgainst = BaseSha

TimeLimit == IF ReferenceRun THEN MaxTime ELSE FlowMaxTime
CallbackLimit == IF ReferenceRun THEN MaxCallbacks ELSE FlowMaxCallbacks

\* ------------------------------------------------------------ initial state
Init ==
    /\ eventName \in EventNames
    /\ githubToken \in GithubTokens
    /\ appUrl \in AppUrls
    /\ useDeploymentUrl \in BOOLEAN
    /\ pc = "initSentry"
    /\ error = Null
    /\ now = 0
    /\ sentryCalls = 0
    /\ transaction = [started |-> FALSE, status |-> <<>>, finished |-> 0]
    /\ closeCalls = 0
    /\ setFailedCalls = <<>>
    /\ event = Null
    /\ octokit = Null
    /\ head = NoSha
    /\ shaToCompareAgainst = NoSha
    /\ urlToTestAgainst = Null
    /\ warnings = <<>>
    /\ logs = <<>>
    /\ resultsReporter = [constructed |-> FALSE, baseSha |-> NoSha, baseRef |-> Null,
                          calls |-> <<>>]
    /\ reportTestFinished = NewDebounce
    /\ baselineCalls = 0
    /\ aliasCalls = 0
    /\ waitCalls = 0
    /\ proxyCalls = 0
    /\ probes = <<>>
    /\ executeTestRunCalls = <<>>
    /\ testRunCreated = FALSE
    /\ callbacks = 0
    /\ exitCode = Undefined
    /\ burst = NoBurst
    /\ testFinishedInFlight = 0

\* An error thrown outside the try block: the promise returned by
\* runMeticulousTestsAction rejects with it.
Reject(message) ==
    /\ pc' = "rejected"
    /\ error' = message

\* A handler that would start the try block again after reporting the error.
CatchRetries(message) ==
    /\ pc' = "try"
    /\ error' = message
    /\ setFailedCalls' = catchSetFailed(setFailedCalls, message)
    /\ resultsReporter' = catchReport(resultsReporter)

\* An error thrown inside the try block (lines 187-190): the handler calls
\* setFailed and invokes resultsReporter.errorRunningTests, which it awaits.
Catch(message) ==
    /\ pc' = "errorRunningTests"
    /\ error' = message
    /\ setFailedCalls' = catchSetFailed(setFailedCalls, message)
    /\ resultsReporter' = catchReport(resultsReporter)

\* ------------------------------------------------- setup (lines 32-119)

\* initLogger(); const sentryHub = await initSentry(...)
InitSentry ==
    /\ pc = "initSentry"
    /\ sentryCalls' = sentryCalls + 1
    /\ \E throws \in BOOLEAN :
          IF throws THEN Reject("initSentry failed")
          ELSE pc' = "startTransaction" /\ error' = error
    /\ UNCHANGED <<inputVars, testFinishedInFlight, now, transaction, closeCalls, setFailedCalls, localVars,
                   logVars, resultsReporter, reportTestFinished, collabVars, execVars,
                   exitCode, burst>>

\* const transaction = sentryHub.startTransaction(...)
StartTransaction ==
    /\ pc = "startTransaction"
    /\ transaction' = [transaction EXCEPT !.started = TRUE]
    /\ pc' = "getInputs"
    /\ UNCHANGED <<inputVars, testFinishedInFlight, error, now, sentryCalls, closeCalls, setFailedCalls,
                   localVars, logVars, resultsReporter, reportTestFinished, collabVars,
                   execVars, exitCode, burst>>

\* const {...} = getInputs()
GetInputs ==
    /\ pc = "getInputs"
    /\ \E throws \in BOOLEAN :
          IF throws THEN Reject("getInputs failed")
          ELSE pc' = "getCodeChangeEvent" /\ error' = error
    /\ UNCHANGED <<inputVars, testFinishedInFlight, now, telemetryVars, setFailedCalls, localVars, logVars,
                   resultsReporter, reportTestFinished, collabVars, execVars, exitCode,
                   burst>>

\* const event = getCodeChangeEvent(context.eventName, payload)
GetCodeChangeEvent ==
    /\ pc = "getCodeChangeEvent"
    /\ event' = getCodeChangeEvent(eventName)
    /\ pc' = "getOctokitOrFail"
    /\ UNCHANGED <<inputVars, testFinishedInFlight, error, now, telemetryVars, setFailedCalls, octokit, head,
                   shaToCompareAgainst, urlToTestAgainst, logVars, resultsReporter,
                   reportTestFinished, collabVars, execVars, exitCode, burst>>

\* const octokit = getOctokitOrFail(githubToken)
GetOctokitOrFail ==
    /\ pc = "getOctokitOrFail"
    /\ \E getOctokitThrows \in BOOLEAN :
          LET r == getOctokitOrFail(githubToken, getOctokitThrows)
          IN  IF r.threw
              THEN Reject(r.message) /\ octokit' = octokit
              ELSE pc' = "checkEvent" /\ error' = error /\ octokit' = r.value
    /\ UNCHANGED <<inputVars, testFinishedInFlight, now, telemetryVars, setFailedCalls, event, head,
                   shaToCompareAgainst, urlToTestAgainst, logVars, resultsReporter,
                   reportTestFinished, collabVars, execVars, exitCode, burst>>

\* if (event == null) { logger.warn(...); return; }
SkipUnsupportedEvent ==
    /\ pc = "checkEvent"
    /\ event = Null
    /\ warnings' = Append(warnings, SkipMessage(eventName))
    /\ pc' = "returned"
    /\ UNCHANGED <<inputVars, testFinishedInFlight, error, now, telemetryVars, setFailedCalls, localVars, logs,
                   resultsReporter, reportTestFinished, collabVars, execVars, exitCode,
                   burst>>

\* const { base, head } = await getBaseAndHeadCommitShas(event, {useDeploymentUrl});
\* const environment = getEnvironment({ event, head });
GetBaseAndHeadCommitShas ==
    /\ pc = "checkEvent"
    /\ event # Null
    /\ \E throws \in BOOLEAN :
          IF throws
          THEN Reject("getBaseAndHeadCommitShas failed") /\ head' = head
          ELSE pc' = "safeEnsureBaseTestsExists" /\ error' = error /\ head' = HeadSha
    /\ UNCHANGED <<inputVars, testFinishedInFlight, now, telemetryVars, setFailedCalls, event, octokit,
                   shaToCompareAgainst, urlToTestAgainst, logVars, resultsReporter,
                   reportTestFinished, collabVars, execVars, exitCode, burst>>

\* const { shaToCompareAgainst } = await safeEnsureBaseTestsExists({...})
SafeEnsureBaseTestsExists ==
    /\ pc = "safeEnsureBaseTestsExists"
    /\ baselineCalls' = baselineCalls + 1
    /\ \E throws \in BOOLEAN, sha \in {NoSha, BaseSha} :
          IF throws
          THEN /\ sha = NoSha
               /\ Reject("safeEnsureBaseTestsExists failed")
               /\ shaToCompareAgainst' = shaToCompareAgainst
          ELSE pc' = "logMode" /\ error' = error /\ shaToCompareAgainst' = sha
    /\ UNCHANGED <<inputVars, testFinishedInFlight, now, telemetryVars, setFailedCalls, event, octokit, head,
                   urlToTestAgainst, logVars, resultsReporter, reportTestFinished,
                   aliasCalls, waitCalls, proxyCalls, probes, executeTestRunCalls,
                   execVars, exitCode, burst>>

\* if (shaToCompareAgainst != null && event.type === "pull_request") ... (91-105)
LogMode ==
    /\ pc = "logMode"
    /\ logs' = Append(logs, ModeMessage(shaToCompareAgainst, event, head))
    /\ pc' = "newResultsReporter"
    /\ UNCHANGED <<inputVars, testFinishedInFlight, error, now, telemetryVars, setFailedCalls, localVars,
                   warnings, resultsReporter, reportTestFinished, collabVars, execVars,
                   exitCode, burst>>

\* const resultsReporter = new ResultsReporter({...})
NewResultsReporter ==
    /\ pc = "newResultsReporter"
    /\ resultsReporter' =
          [constructed |-> TRUE,
           baseSha |-> shaToCompareAgainst,
           baseRef |-> IF event = "pull_request" THEN "base.ref" ELSE Null,
           calls |-> <<>>]
    /\ pc' = "try"
    /\ UNCHANGED <<inputVars, testFinishedInFlight, error, now, telemetryVars, setFailedCalls, localVars,
                   logVars, reportTestFinished, collabVars, execVars, exitCode, burst>>


\* ------------------------------------------------ try block (lines 121-186)

\* setMeticulousLocalDataDir(); const reportTestFinished = debounce(...);
\* await addLocalhostAliases({ appUrl, localhostAliases })
AddLocalhostAliases ==
    /\ pc = "try"
    /\ reportTestFinished' = NewDebounce
    /\ aliasCalls' = aliasCalls + 1
    /\ \E throws \in BOOLEAN :
          IF throws THEN Catch("addLocalhostAliases failed")
          ELSE /\ pc' = "resolveUrl"
               /\ UNCHANGED <<error, setFailedCalls, resultsReporter>>
    /\ UNCHANGED <<inputVars, testFinishedInFlight, now, telemetryVars, localVars, logVars, baselineCalls,
                   waitCalls, proxyCalls, probes, executeTestRunCalls, execVars,
                   exitCode, burst>>

\* const urlToTestAgainst = useDeploymentUrl ? await waitForDeploymentUrl({...}) : appUrl
ResolveUrl ==
    /\ pc = "resolveUrl"
    /\ IF useDeploymentUrl
       THEN /\ waitCalls' = waitCalls + 1
            /\ \E throws \in BOOLEAN :
                  IF throws
                  THEN Catch("waitForDeploymentUrl failed")
                       /\ urlToTestAgainst' = urlToTestAgainst
                  ELSE /\ pc' = "probe"
                       /\ urlToTestAgainst' = DeploymentUrl
                       /\ UNCHANGED <<error, setFailedCalls, resultsReporter>>
       ELSE /\ pc' = "probe"
            /\ urlToTestAgainst' = appUrl
            /\ UNCHANGED <<waitCalls, error, setFailedCalls, resultsReporter>>
    /\ UNCHANGED <<inputVars, testFinishedInFlight, now, telemetryVars, event, octokit, head,
                   shaToCompareAgainst, logVars, reportTestFinished, baselineCalls,
                   aliasCalls, proxyCalls, probes, executeTestRunCalls, execVars,
                   exitCode, burst>>

\* if (urlToTestAgainst != null) {
\*   spinUpProxyIfNeeded(urlToTestAgainst, logger);
\*   await throwIfCannotConnectToOrigin(urlToTestAgainst); }
Probe ==
    /\ pc = "probe"
    /\ IF probeNeeded(urlToTestAgainst)
       THEN /\ proxyCalls' = proxyCalls + 1
            /\ \E connects \in BOOLEAN :
                  /\ probes' = Append(probes, [url |-> urlToTestAgainst, ok |-> connects])
                  /\ IF connects
                     THEN /\ pc' = "executeTestRun"
                          /\ UNCHANGED <<error, setFailedCalls, resultsReporter>>
                     ELSE Catch("Could not connect to origin")
       ELSE /\ pc' = "executeTestRun"
            /\ UNCHANGED <<proxyCalls, probes, error, setFailedCalls, resultsReporter>>
    /\ UNCHANGED <<inputVars, testFinishedInFlight, now, telemetryVars, localVars, logVars, reportTestFinished,
                   baselineCalls, aliasCalls, waitCalls, executeTestRunCalls, execVars,
                   exitCode, burst>>

\* const results = await executeTestRun({...}): the call is made, the run starts.
ExecuteTestRun ==
    /\ pc = "executeTestRun"
    /\ executeTestRunCalls' =
          Append(executeTestRunCalls,
                 executeTestRunArgs(head, shaToCompareAgainst, urlToTestAgainst))
    /\ pc' = "executing"
    /\ UNCHANGED <<inputVars, testFinishedInFlight, error, now, telemetryVars, setFailedCalls, localVars,
                   logVars, resultsReporter, reportTestFinished, baselineCalls,
                   aliasCalls, waitCalls, proxyCalls, probes, execVars, exitCode, burst>>

\* onTestRunCreated: (testRun) => resultsReporter.testRunStarted(testRun)
OnTestRunCreated ==
    /\ pc = "executing"
    /\ ~testRunCreated
    /\ testRunCreated' = TRUE
    /\ resultsReporter' =
          [resultsReporter EXCEPT !.calls = Append(@, Call("testRunStarted", Undefined))]
    /\ UNCHANGED <<inputVars, testFinishedInFlight, pc, error, now, telemetryVars, setFailedCalls, localVars,
                   logVars, reportTestFinished, collabVars, callbacks, exitCode, burst>>

\* onTestFinished: reportTestFinished -- the executor calls the debounced function.
OnTestFinished ==
    /\ pc = "executing"
    /\ testRunCreated
    /\ callbacks < CallbackLimit
    /\ callbacks' = callbacks + 1
    /\ LET r == debounced(reportTestFinished, now, callbacks + 1)
       IN  /\ reportTestFinished' = r.d
           /\ resultsReporter' = ReporterAfterInvoke(resultsReporter, r.invoked)
           /\ testFinishedInFlight' = InFlightAfterInvoke(testFinishedInFlight, r.invoked)
           /\ burst' = BurstAfterInvoke(BurstAfterCallback(burst, now), r.invoked)
    /\ UNCHANGED <<inputVars, pc, error, now, telemetryVars, setFailedCalls, localVars,
                   logVars, collabVars, testRunCreated, exitCode>>

\* executeTestRun returns: reportTestFinished.cancel(), then
\* resultsReporter.testRunFinished(results) is invoked and awaited.
ExecuteTestRunReturns ==
    /\ pc = "executing"
    /\ testRunCreated
    /\ reportTestFinished' = cancel(reportTestFinished)
    /\ resultsReporter' =
          [resultsReporter EXCEPT !.calls = Append(@, Call("testRunFinished", Undefined))]
    /\ pc' = "testRunFinished"
    /\ UNCHANGED <<inputVars, testFinishedInFlight, error, now, telemetryVars, setFailedCalls, localVars,
                   logVars, collabVars, execVars, exitCode, burst>>

\* executeTestRun throws: the catch block runs.
ExecuteTestRunThrows ==
    /\ pc = "executing"
    /\ Catch("executeTestRun failed")
    /\ UNCHANGED <<inputVars, testFinishedInFlight, now, telemetryVars, localVars, logVars, reportTestFinished,
                   collabVars, execVars, exitCode, burst>>

\* await resultsReporter.testRunFinished(results) completes:
\* transaction.setStatus("ok"); transaction.finish();
\* await sentryHub.getClient()?.close(5_000): close is called when getClient()
\* returns a client; when it returns undefined nothing is called, the await
\* of undefined resumes before any timer can run and process.exit(0) follows.
TestRunFinishedReturns ==
    /\ pc = "testRunFinished"
    /\ \E throws \in BOOLEAN, client \in BOOLEAN :
          IF throws
          THEN Catch("testRunFinished failed")
               /\ UNCHANGED <<transaction, closeCalls, exitCode>>
          ELSE /\ transaction' = [transaction EXCEPT !.status = Append(@, "ok"),
                                                     !.finished = @ + 1]
               /\ IF client
                  THEN closeCalls' = closeCalls + 1 /\ pc' = "closeOk"
                       /\ exitCode' = exitCode
                  ELSE closeCalls' = closeCalls /\ pc' = "exited" /\ exitCode' = 0
               /\ UNCHANGED <<error, setFailedCalls, resultsReporter>>
    /\ UNCHANGED <<inputVars, testFinishedInFlight, now, sentryCalls, localVars, logVars, reportTestFinished,
                   collabVars, execVars, burst>>

\* the close completes: process.exit(0)
CloseOkReturns ==
    /\ pc = "closeOk"
    /\ \E throws \in BOOLEAN :
          IF throws
          THEN Catch("close failed") /\ exitCode' = exitCode
          ELSE /\ pc' = "exited"
               /\ exitCode' = 0
               /\ UNCHANGED <<error, setFailedCalls, resultsReporter>>
    /\ UNCHANGED <<inputVars, testFinishedInFlight, now, telemetryVars, localVars, logVars, reportTestFinished,
                   collabVars, execVars, burst>>

\* ---------------------------------------------- catch block (lines 187-198)

\* await resultsReporter.errorRunningTests() completes:
\* transaction.setStatus("unknown_error"); transaction.finish();
\* await sentryHub.getClient()?.close(5_000): as at line 184, with
\* process.exit(1) following at once when getClient() returns undefined.
ErrorRunningTestsReturns ==
    /\ pc = "errorRunningTests"
    /\ \E throws \in BOOLEAN, client \in BOOLEAN :
          IF throws
          THEN Reject("errorRunningTests failed")
               /\ UNCHANGED <<transaction, closeCalls, exitCode>>
          ELSE /\ transaction' = [transaction EXCEPT !.status = Append(@, "unknown_error"),
                                                     !.finished = @ + 1]
               /\ IF client
                  THEN closeCalls' = closeCalls + 1 /\ pc' = "closeError"
                       /\ exitCode' = exitCode
                  ELSE closeCalls' = closeCalls /\ pc' = "exited" /\ exitCode' = 1
               /\ error' = error
    /\ UNCHANGED <<inputVars, testFinishedInFlight, now, sentryCalls, setFailedCalls, localVars, logVars,
                   resultsReporter, reportTestFinished, collabVars, execVars,
                   burst>>

\* the close completes: process.exit(1)
CloseErrorReturns ==
    /\ pc = "closeError"
    /\ \E throws \in BOOLEAN :
          IF throws
          THEN Reject("close failed") /\ exitCode' = exitCode
          ELSE pc' = "exited" /\ exitCode' = 1 /\ error' = error
    /\ UNCHANGED <<inputVars, testFinishedInFlight, now, telemetryVars, setFailedCalls, localVars, logVars,
                   resultsReporter, reportTestFinished, collabVars, execVars, burst>>

\* --------------------------------------------------------- entry point
\* The promise of runMeticulousTestsAction rejected: the entry point reports
\* the message as the action's failure reason and the process exits with 1.
EntryPointCatch ==
    /\ pc = "rejected"
    /\ setFailedCalls' = Append(setFailedCalls, error)
    /\ pc' = "exited"
    /\ exitCode' = 1
    /\ UNCHANGED <<inputVars, testFinishedInFlight, error, now, telemetryVars, localVars, logVars,
                   resultsReporter, reportTestFinished, collabVars, execVars, burst>>

\* The promise resolved after the unsupported-event return: nothing is left to
\* run and the process ends with status 0.
EntryPointDone ==
    /\ pc = "returned"
    /\ pc' = "exited"
    /\ exitCode' = 0
    /\ UNCHANGED <<inputVars, testFinishedInFlight, error, now, telemetryVars, setFailedCalls, localVars,
                   logVars, resultsReporter, reportTestFinished, collabVars, execVars,
                   burst>>

\* ------------------------------------------------------- timers and time
\* The function awaits: the event loop is free to run a due timer.
Awaiting == pc \in {"executing", "testRunFinished", "closeOk", "errorRunningTests",
                    "closeError"}

\* The runtime runs a due timeout: lodash's timerExpired.  Timeouts that are
\* due together run in no fixed order of their deadlines (the runtime keeps
\* one list per duration).
TimerExpired ==
    /\ Awaiting
    /\ \E i \in 1..Len(reportTestFinished.timers) :
          /\ now >= reportTestFinished.timers[i]
          /\ LET fired == [reportTestFinished EXCEPT !.timers = RemoveAt(@, i)]
                 r == timerExpired(fired, now)
             IN  /\ reportTestFinished' = r.d
                 /\ resultsReporter' = ReporterAfterInvoke(resultsReporter, r.invoked)
                 /\ testFinishedInFlight' =
                        InFlightAfterInvoke(testFinishedInFlight, r.invoked)
                 /\ burst' = BurstAfterInvoke(burst, r.invoked)
    /\ UNCHANGED <<inputVars, pc, error, now, telemetryVars, setFailedCalls, localVars,
                   logVars, collabVars, execVars, exitCode>>

\* A resultsReporter.testFinished call started earlier completes.  Its promise
\* is awaited by nobody: when it rejects, the rejection is unhandled, and
\* whether the process survives depends on a process-level listener that
\* initSentry may or may not have registered.  Without one the runtime ends the
\* process with exit code 1 and no line of the function runs any more.
TestFinishedCompletes ==
    /\ Awaiting
    /\ testFinishedInFlight > 0
    /\ testFinishedInFlight' = testFinishedInFlight - 1
    /\ \E outcome \in {"settled", "unhandledRejection"} :
          IF outcome = "unhandledRejection"
          THEN pc' = "exited" /\ exitCode' = 1 /\ error' = "testFinished failed"
          ELSE UNCHANGED <<pc, exitCode, error>>
    /\ UNCHANGED <<inputVars, now, telemetryVars, setFailedCalls, localVars,
                   logVars, resultsReporter, reportTestFinished, collabVars, execVars,
                   burst>>

\* One second passes.  A due timeout need not run first: the runtime gives no
\* limit on how late a timeout runs, so the clock may pass its deadline.
Tick ==
    /\ Awaiting
    /\ now < TimeLimit
    /\ now' = now + 1
    /\ UNCHANGED <<inputVars, testFinishedInFlight, pc, error, telemetryVars, setFailedCalls, localVars,
                   logVars, resultsReporter, reportTestFinished, collabVars, execVars,
                   exitCode, burst>>

Next ==
    \/ InitSentry
    \/ StartTransaction
    \/ GetInputs
    \/ GetCodeChangeEvent
    \/ GetOctokitOrFail
    \/ SkipUnsupportedEvent
    \/ GetBaseAndHeadCommitShas
    \/ SafeEnsureBaseTestsExists
    \/ LogMode
    \/ NewResultsReporter
    \/ AddLocalhostAliases
    \/ ResolveUrl
    \/ Probe
    \/ ExecuteTestRun
    \/ OnTestRunCreated
    \/ OnTestFinished
    \/ ExecuteTestRunReturns
    \/ ExecuteTestRunThrows
    \/ TestRunFinishedReturns
    \/ CloseOkReturns
    \/ ErrorRunningTestsReturns
    \/ CloseErrorReturns
    \/ EntryPointCatch
    \/ EntryPointDone
    \/ TimerExpired
    \/ TestFinishedCompletes
    \/ Tick

Spec == Init /\ [][Next]_vars


\* =================================================================== claims

\* Number of calls of a method made on the ResultsReporter so far.
CallsOf(method) ==
    Cardinality({i \in 1..Len(resultsReporter.calls) :
                    resultsReporter.calls[i].method = method})

TestRunFinishedCalls == CallsOf("testRunFinished")
ErrorRunningTestsCalls == CallsOf("errorRunningTests")
TestFinishedCalls == CallsOf("testFinished")
TerminalCalls == TestRunFinishedCalls + ErrorRunningTestsCalls

InSeq(x, seq) == \E i \in 1..Len(seq) : seq[i] = x

\* ------------------------------------------------------------------- C1
\* C1 (as stated): in every invocation, whatever the event, the inputs and the
\* collaborators' outcomes, exactly one terminal reporter call is made: never
\* both testRunFinished and errorRunningTests, and never neither.
C1_ExactlyOneTerminalCall ==
    /\ TerminalCalls <= 1
    /\ pc = "exited" => TerminalCalls = 1


\* ------------------------------------------------------------------- C2
\* The steps the claims count as collaborator calls after setup.
NoRunSideEffects ==
    /\ ~resultsReporter.constructed
    /\ resultsReporter.calls = <<>>
    /\ baselineCalls = 0
    /\ aliasCalls = 0
    /\ waitCalls = 0
    /\ proxyCalls = 0
    /\ probes = <<>>
    /\ executeTestRunCalls = <<>>

\* A collaborator of the setup (initSentry, getInputs, getOctokit) failed.
SetupCollaboratorFailed ==
    error \in {"initSentry failed", "getInputs failed", GithubConnectError}

\* C2: for every event name other than push, pull_request and
\* workflow_dispatch, and every configuration of the other inputs, the action
\* ends successfully (exit status 0, no failure raised) without side effects:
\* no reporter, no baseline, no alias, proxy or probe, no executeTestRun.
C2_UnsupportedEventIsNoOp ==
    (getCodeChangeEvent(eventName) = Null /\ ~SetupCollaboratorFailed) =>
        /\ pc # "rejected"
        /\ setFailedCalls = <<>>
        /\ exitCode \in {Undefined, 0}
        /\ NoRunSideEffects

\* ------------------------------------------------------------------- C3
\* C3: whenever a step of the action throws after the transaction was started
\* (input resolution, GitHub client creation, commit SHA resolution, baseline
\* ensuring, ..., the final report), the process exits with code 1 and
\* transaction.setStatus("unknown_error") was called before the exit.
C3_ThrowSetsErrorStatus ==
    (pc \in {"rejected", "exited"} /\ error # Null /\ transaction.started) =>
        /\ InSeq("unknown_error", transaction.status)
        /\ pc = "exited" => exitCode = 1


\* ------------------------------------------------------------------- C4
\* C4: when executeTestRun returns, the pending debounced report is cancelled
\* (its timer cleared, resultsReporter.testFinished not invoked) before
\* resultsReporter.testRunFinished is invoked, and once testRunFinished has
\* been invoked resultsReporter.testFinished is never invoked again.
C4_FinalReportIsLast ==
    [][ /\ (TestRunFinishedCalls' > TestRunFinishedCalls) =>
               /\ reportTestFinished'.timerId = Undefined
               /\ reportTestFinished'.lastArgs = Undefined
               /\ TestFinishedCalls' = TestFinishedCalls
        /\ (TestRunFinishedCalls > 0) => TestFinishedCalls' = TestFinishedCalls
      ]_vars

\* testRunFinished was invoked while a callback was still unreported, and the
\* time at which its timer would have expired has passed.
C4_Witness ==
    /\ TestRunFinishedCalls = 1
    /\ burst.firstUnreported # Undefined
    /\ now >= burst.last + wait
    /\ pc = "exited"

\* ------------------------------------------------------------------- C5
\* C5: within a burst of onTestFinished callbacks (each less than 5 s after the
\* previous one), resultsReporter.testFinished is invoked at most once until
\* 15 s have passed since the first callback of the burst or 5 s have passed
\* with no callback.
C5_AtMostOncePerBurst ==
    (/\ burst.start # Undefined
     /\ now - burst.start < maxWait
     /\ now - burst.last < wait) => burst.invoked <= 1

\* A burst of three callbacks or more, one second before the 15 s ceiling.
C5_Witness ==
    /\ burst.count >= 3
    /\ now - burst.start = maxWait - 1
    /\ now - burst.last < wait
    /\ pc = "executing"

\* ------------------------------------------------------------------- C6
\* C6 (as stated): for every burst of callbacks, resultsReporter.testFinished
\* is invoked no later than 15 s after the first callback of the burst.
C6_ReportedWithinMaxWait ==
    burst.firstUnreported # Undefined => now - burst.firstUnreported <= maxWait

\* C6 (amended): while the function awaits and testRunFinished has not been
\* invoked (executeTestRun has not returned), the timeout that will report a
\* callback not reported yet is pending and its deadline is no later than 15 s
\* after that callback, even when callbacks keep arriving less than 5 s apart.
\* The report is made when the runtime runs the timeout, at the deadline or
\* later.  A report pending when executeTestRun returns is cancelled.
C6_ReportedWithinMaxWaitWhileRunning ==
    (Awaiting /\ TestRunFinishedCalls = 0 /\ burst.firstUnreported # Undefined) =>
        /\ reportTestFinished.timerId # Undefined
        /\ InSeq(reportTestFinished.timerId, reportTestFinished.timers)
        /\ reportTestFinished.timerId <= burst.firstUnreported + maxWait

\* Callbacks kept arriving less than 5 s apart and the report was made by the
\* timer exactly 15 s after the first of them.
C6_Witness ==
    /\ pc = "executing"
    /\ burst.count >= 4
    /\ now = burst.start + maxWait
    /\ burst.invoked = 1
    /\ burst.firstUnreported = Undefined
    /\ reportTestFinished.lastInvokeTime = burst.start + maxWait
    /\ reportTestFinished.timerId = Undefined


\* ------------------------------------------------------------------- C7
\* C7: process.exit(0) is reached only after executeTestRun returned and
\* resultsReporter.testRunFinished completed without throwing, with setFailed
\* never called and the transaction status set to "ok"; on every path where an
\* error was thrown the exit code is 1 and setFailed was called with the
\* error's message.
C7_ExitCodes ==
    /\ (pc = "exited" /\ exitCode = 0 /\ event # Null) =>
          /\ error = Null
          /\ Len(executeTestRunCalls) = 1
          /\ TestRunFinishedCalls = 1
          /\ ErrorRunningTestsCalls = 0
          /\ setFailedCalls = <<>>
          /\ transaction.status = <<"ok">>
    /\ (pc = "exited" /\ error # Null) =>
          /\ exitCode = 1
          /\ InSeq(error, setFailedCalls)
    /\ (pc = "exited" /\ setFailedCalls # <<>>) => exitCode = 1

\* ------------------------------------------------------------------- C8
\* C8 (as stated): when the GitHub token is null the action fails before any
\* collaborator call (telemetry initialisation, baseline ensuring, deployment
\* polling, connectivity probe, executeTestRun, reporter call) and the message
\* "github-token is required" is passed to setFailed.
C8_TokenFailsBeforeAnyCall ==
    error = TokenRequired =>
        /\ sentryCalls = 0
        /\ ~transaction.started
        /\ NoRunSideEffects
        /\ pc = "exited" => setFailedCalls = <<TokenRequired>>

\* C8 (amended): when the GitHub token is null, getOctokitOrFail throws
\* "github-token is required" after telemetry was initialised and the
\* transaction started (and the inputs and the event were read), and before
\* any baseline ensuring, deployment polling, alias, proxy, probe,
\* executeTestRun or reporter call; the transaction gets no status, the error
\* bypasses the catch block and the message is passed to setFailed, exit 1.
C8_TokenFailure ==
    /\ githubToken = Null =>
          /\ octokit = Null
          /\ NoRunSideEffects
          /\ transaction.status = <<>>
          /\ (pc = "exited" /\ ~SetupCollaboratorFailed) => error = TokenRequired
    /\ error = TokenRequired =>
          /\ githubToken = Null
          /\ sentryCalls = 1
          /\ transaction.started
          /\ pc \in {"rejected", "exited"}
          /\ pc = "exited" => (exitCode = 1 /\ setFailedCalls = <<TokenRequired>>)

\* The token was null and the process has exited with the failure.
C8_Witness ==
    /\ githubToken = Null
    /\ error = TokenRequired
    /\ pc = "exited"
    /\ setFailedCalls = <<TokenRequired>>

\* ------------------------------------------------------------------- C9
ProbeFailed == \E i \in 1..Len(probes) : ~probes[i].ok

\* C9: if the connectivity probe fails for the resolved target URL,
\* executeTestRun is never invoked and the run ends on the failure path; and
\* executeTestRun is invoked with a non-null URL only after the probe of that
\* URL has succeeded.
C9_ProbeBeforeExecute ==
    /\ ProbeFailed =>
          /\ executeTestRunCalls = <<>>
          /\ pc \in {"errorRunningTests", "closeError", "rejected", "exited"}
          /\ exitCode \in {Undefined, 1}
          /\ InSeq("Could not connect to origin", setFailedCalls)
    /\ \A i \in 1..Len(executeTestRunCalls) :
          executeTestRunCalls[i].appUrl # Null =>
             InSeq([url |-> executeTestRunCalls[i].appUrl, ok |-> TRUE], probes)
    /\ \A i \in 1..Len(probes) : probes[i].url = urlToTestAgainst

\* The probe failed and the process has exited.
C9_Witness ==
    /\ ProbeFailed
    /\ pc = "exited"
    /\ exitCode = 1

\* ------------------------------------------------------------------ C10
\* C10: with shaToCompareAgainst null the action logs the "Generating visual
\* snapshots" message, never a "Comparing" one, and calls executeTestRun with
\* baseCommitSha null; otherwise it logs a "Comparing" message naming the short
\* head SHA and the short shaToCompareAgainst, in the PR wording iff the event
\* is a pull_request, and passes that SHA as baseCommitSha.
C10_ModeMessage ==
    /\ Len(logs) <= 1
    /\ resultsReporter.constructed => Len(logs) = 1
    /\ \A i \in 1..Len(logs) :
          IF shaToCompareAgainst = NoSha
          THEN logs[i] = Message(Generating, <<SubSeq(head, 1, ShortShaLen)>>)
          ELSE /\ logs[i].shas = <<SubSeq(head, 1, ShortShaLen),
                                   SubSeq(shaToCompareAgainst, 1, ShortShaLen)>>
               /\ logs[i].text = (IF event = "pull_request" THEN ComparingPr
                                  ELSE ComparingCommit)
    /\ \A i \in 1..Len(executeTestRunCalls) :
          /\ executeTestRunCalls[i].baseCommitSha = shaToCompareAgainst
          /\ executeTestRunCalls[i].commitSha = head
          /\ Len(logs) = 1

\* A run without a baseline reached executeTestRun with baseCommitSha null.
C10_Witness ==
    /\ Len(executeTestRunCalls) = 1
    /\ executeTestRunCalls[1].baseCommitSha = NoSha
    /\ logs = <<Message(Generating, <<SubSeq(HeadSha, 1, ShortShaLen)>>)>>


\* ------------------------------------------------------------------ C11
\* C11 (as stated): every terminal reporter call (testRunFinished or
\* errorRunningTests) is preceded by a testRunStarted call: a terminal call is
\* never made while the reporter is still in the created state.
C11_TerminalAfterStarted ==
    \A i \in 1..Len(resultsReporter.calls) :
        resultsReporter.calls[i].method \in {"testRunFinished", "errorRunningTests"} =>
            \E j \in 1..(i - 1) : resultsReporter.calls[j].method = "testRunStarted"

\* C11 (amended): testRunFinished is invoked only after executeTestRun was
\* called and testRunStarted was invoked, and testRunStarted is never invoked
\* after a terminal call; errorRunningTests, however, is invoked while the
\* reporter is still in the created state exactly when the error was thrown
\* before the executor called onTestRunCreated (a step of the try block before
\* executeTestRun, or executeTestRun itself before it created the test run).
C11_Lifecycle ==
    /\ \A i \in 1..Len(resultsReporter.calls) :
          /\ resultsReporter.calls[i].method = "testRunFinished" =>
                /\ Len(executeTestRunCalls) = 1
                /\ \E j \in 1..(i - 1) : resultsReporter.calls[j].method = "testRunStarted"
          /\ resultsReporter.calls[i].method = "testRunStarted" =>
                \A j \in 1..(i - 1) :
                    resultsReporter.calls[j].method
                        \notin {"testRunFinished", "errorRunningTests", "testRunStarted"}
    /\ (ErrorRunningTestsCalls > 0 /\ ~testRunCreated) =>
          /\ resultsReporter.calls = <<Call("errorRunningTests", Undefined)>>
          /\ error # Null

\* errorRunningTests was invoked and awaited on a reporter that never started.
C11_Witness ==
    /\ pc = "exited"
    /\ resultsReporter.constructed
    /\ resultsReporter.calls = <<Call("errorRunningTests", Undefined)>>
    /\ executeTestRunCalls = <<>>


\* ------------------------------------------------------------------ C12
\* Number of times a status was set on the transaction.
StatusCount(status) ==
    Cardinality({i \in 1..Len(transaction.status) : transaction.status[i] = status})

\* C12: once an error is caught by the top-level handler, setFailed is called
\* with its message, errorRunningTests is invoked and awaited,
\* setStatus("unknown_error") and finish are called, the telemetry client
\* (when getClient() returns one) is closed, each exactly once and in this
\* order, and the handler always ends in process.exit(1): the function never
\* ends any other way.
C12_HandlerRunsToExit ==
    ErrorRunningTestsCalls > 0 =>
        /\ ErrorRunningTestsCalls = 1
        /\ setFailedCalls # <<>>
        /\ pc # "rejected"
        /\ pc = "closeError" => (StatusCount("unknown_error") = 1 /\ closeCalls >= 1)
        /\ pc = "exited" =>
              /\ exitCode = 1
              /\ Len(setFailedCalls) = 1
              /\ StatusCount("unknown_error") = 1
              /\ transaction.finished >= 1


\* ------------------------------------------------------------------ C13
\* The URL the run must use: the waiter's when useDeploymentUrl is set, the
\* configured appUrl otherwise.
ExpectedUrl == IF useDeploymentUrl THEN DeploymentUrl ELSE appUrl

\* C13: waitForDeploymentUrl is invoked if and only if useDeploymentUrl is
\* set; when it is set the URL probed and passed to executeTestRun is the one
\* the waiter returned, never the configured appUrl; when the waiter throws,
\* executeTestRun is never invoked and the top-level handler reports the
\* failure (setFailed, errorRunningTests, exit 1); when it is not set the
\* configured appUrl is used unchanged.
C13_DeploymentUrl ==
    /\ waitCalls <= 1
    /\ waitCalls = 1 => useDeploymentUrl
    /\ (probes # <<>> \/ executeTestRunCalls # <<>>) =>
          (waitCalls = 1 <=> useDeploymentUrl)
    /\ \A i \in 1..Len(probes) : probes[i].url = ExpectedUrl
    /\ \A i \in 1..Len(executeTestRunCalls) :
          executeTestRunCalls[i].appUrl = ExpectedUrl
    /\ InSeq("waitForDeploymentUrl failed", setFailedCalls) =>
          /\ useDeploymentUrl
          /\ executeTestRunCalls = <<>>
          /\ probes = <<>>
          /\ setFailedCalls[1] = "waitForDeploymentUrl failed"
          /\ ErrorRunningTestsCalls = 1
          /\ pc \in {"errorRunningTests", "closeError", "rejected", "exited"}
          /\ pc = "exited" => exitCode = 1

\* The waiter's URL, not the configured one, reached executeTestRun.
C13_Witness ==
    /\ useDeploymentUrl
    /\ appUrl # Null
    /\ Len(executeTestRunCalls) = 1
    /\ executeTestRunCalls[1].appUrl = DeploymentUrl
    /\ probes = <<[url |-> DeploymentUrl, ok |-> TRUE]>>


\* ------------------------------------------------------------------ C14
\* A step that invokes resultsReporter.testFinished.
InvokesTestFinished == TestFinishedCalls' > TestFinishedCalls

C15_NoRetry ==
    [][ /\ Len(executeTestRunCalls') <= 1
        /\ ErrorRunningTestsCalls > 0 =>
               UNCHANGED <<sentryCalls, baselineCalls, aliasCalls, waitCalls, proxyCalls,
                           probes, executeTestRunCalls>>
      ]_vars

\* executeTestRun threw after it was called once, the handler reported the
\* error and the process exited with nothing invoked a second time.
C15_Witness ==
    /\ pc = "exited"
    /\ exitCode = 1
    /\ error = "executeTestRun failed"
    /\ ErrorRunningTestsCalls = 1
    /\ Len(executeTestRunCalls) = 1
    /\ aliasCalls = 1
    /\ Len(probes) = 1


\* ------------------------------------------------------------------ C16
\* C16: once resultsReporter.errorRunningTests has been invoked,
\* resultsReporter.testFinished is never invoked afterwards: a timer pending
\* when the error was thrown does not fire during the awaits of the handler.
C16_ErrorReportIsLast ==
    [][ ErrorRunningTestsCalls > 0 => TestFinishedCalls' = TestFinishedCalls ]_vars


\* ------------------------------------------------------------------ C17
\* C17: resultsReporter.testRunFinished is never invoked while a
\* resultsReporter.testFinished call started by the debounced function is
\* still in progress.
C17_FinalReportDoesNotRace ==
    [][ TestRunFinishedCalls' > TestRunFinishedCalls => testFinishedInFlight = 0 ]_vars


\* ------------------------------------------------------------------ C18
\* The invocation has ended: the function returned or rejected, or the
\* process exited.
InvocationEnded == pc \in {"returned", "rejected", "exited"}

\* C18: after startTransaction, setStatus is called exactly once and then
\* finish exactly once before the invocation ends; the status is "ok" only if
\* resultsReporter.testRunFinished completed without throwing; the status is
\* never set to both "ok" and "unknown_error".
C18_TransactionFinished ==
    /\ transaction.finished <= Len(transaction.status)
    /\ StatusCount("ok") > 0 =>
           /\ TestRunFinishedCalls = 1
           /\ pc \notin {"executing", "testRunFinished"}
    /\ ~(StatusCount("ok") > 0 /\ StatusCount("unknown_error") > 0)
    /\ (InvocationEnded /\ transaction.started) =>
           /\ Len(transaction.status) = 1
           /\ transaction.finished = 1

====
